---- MODULE Spec2Model ----
(***************************************************************************)
(* Gateway (registry) -> Gate (multiplexer) -> Proxy (route) of infrared.  *)
(*                                                                         *)
(* Threads of the program:                                                 *)
(*   - the caller of the registry API (initial setup in startGateway and   *)
(*     the config-change callback): variable op, one API call at a time,   *)
(*     each call cut at its accesses to shared gateway state;              *)
(*   - the goroutine running Gateway.ListenAndServe (main.go:108): las;    *)
(*   - one goroutine per spawned serving task: tasks.                      *)
(* gate.go and proxy.go are not part of the sources at hand; Gate and      *)
(* Proxy operations are modelled from the written specification.           *)
(***************************************************************************)
EXTENDS Integers, FiniteSets, Sequences, Bags, TLC

\* ---------------------------------------------------------------- bounds
MaxGates == 2
MaxTasks == 2

Addrs   == {"a1", "a2"}
Hosts   == {"h1", "h2"}
Targets == {"t2"}       \* backends named by changed configs; "t1" initially
Proxies == {"p1", "p2"}

Gids    == 1..MaxGates
NoGate  == 0
NoProxy == "none"
NoAddr  == "none"
NoHost  == "none"

\* ProxyConfig: ListenTo (gateway.go:214), DomainName, ProxyTo; valid is the
\* outcome of the route's validation of the config.
\* A config the validation rejects changes nothing whatever its other fields
\* are, so one rejected config per address stands for all of them.
ProxyConfig ==
    [ListenTo : Addrs, DomainName : Hosts, ProxyTo : Targets, valid : {TRUE}]
    \cup [ListenTo : Addrs, DomainName : {"h1"}, ProxyTo : {"t2"}, valid : {FALSE}]
NoCfg == [ListenTo |-> NoAddr, DomainName |-> NoHost, ProxyTo |-> "none", valid |-> FALSE]

\* fsnotify events delivered to the handler of a watched config file: the kind
\* of the event, and whether LoadProxyConfig succeeds when the handler gets to
\* it (gateway.go:201), which it does for no other kind than Write.
EventOps == {"Create", "Write", "Remove", "Rename", "Chmod"}
Events ==
    [Op : EventOps \ {"Write"}, loaded : {FALSE}] \cup [Op : {"Write"}, loaded : BOOLEAN]
NoEvent == [Op |-> "none", loaded |-> FALSE]

VARIABLES
    gates,      \* Gateway.gates: address -> gate object (NoGate: no entry)
    gate,       \* the Gate objects: listenTo, proxies (hostname -> proxy), closed,
                \* outputs (the sinks its log events are delivered to)
    proxy,      \* the Proxy objects: listenTo, domainName, proxyTo
    running,    \* Gateway.running
    wg,         \* Gateway.wg counter
    tasks,      \* bag of live serving goroutines [gate, pc]
    op,         \* the API caller: position and locals of the call in progress
    pre,        \* registry state when the call in progress was entered
    las,        \* the ListenAndServe goroutine: position and last result
    loggerOutputs   \* Gateway.loggerOutputs: the sinks registered so far

vars == <<gates, gate, proxy, running, wg, tasks, op, pre, las, loggerOutputs>>

\* ------------------------------------------------------------ Gate, Proxy
BlankGate == [listenTo |-> NoAddr, proxies |-> [h \in Hosts |-> NoProxy], closed |-> FALSE,
              outputs |-> {}]

\* NewGate(listenTo): a fresh gate with no proxies.
NewGate(a) == [listenTo |-> a, proxies |-> [h \in Hosts |-> NoProxy], closed |-> FALSE,
               outputs |-> {}]

\* Gate.AddProxy: DuplicateHostname if the hostname is taken, else insert.
GateHasHost(gs, g, h) == gs[g].proxies[h] # NoProxy
GateAddProxy(gs, g, h, p) == [gs EXCEPT ![g].proxies[h] = p]

\* Gate.RemoveProxy: no-op if absent, otherwise detach; closeEmpty says whether
\* a gate left without routes is closed.
GateRemoveProxy(gs, g, h, closeEmpty) ==
    IF gs[g].proxies[h] = NoProxy THEN gs
    ELSE LET left == [gs[g].proxies EXCEPT ![h] = NoProxy]
         IN  [gs EXCEPT ![g].proxies = left,
                        ![g].closed = @ \/ (closeEmpty /\ \A k \in Hosts : left[k] = NoProxy)]

\* Gate.Close: idempotent.
GateClose(gs, g) == [gs EXCEPT ![g].closed = TRUE]

\* Proxy.updateConfig: replaces listenTo, domainName and config as a unit.
UpdateConfig(ps, p, cfg) ==
    [ps EXCEPT ![p] = [listenTo |-> cfg.ListenTo, domainName |-> cfg.DomainName,
                       proxyTo |-> cfg.ProxyTo]]

\* ------------------------------------------------------------------ state
Idle == [pc |-> "idle", top |-> "none", p |-> NoProxy, cfg |-> NoCfg, g |-> NoGate,
         addr |-> NoAddr, oldAddr |-> NoAddr, oldDomainName |-> NoHost, res |-> "none",
         ev |-> NoEvent]

NoPre == [gates |-> [a \in Addrs |-> NoGate]]

Snapshot == [gates |-> gates, gate |-> gate, proxy |-> proxy, tasks |-> tasks,
             running |-> running]

Task(g) == [gate |-> g, pc |-> "serve"]
NumTasks == BagCardinality(tasks)

\* Gate objects are heap values. A gate the registry or the call in progress
\* refers to is kept whole. A gate only its serving goroutine still holds can
\* never be looked up again: its routes and sinks are dropped with it, its
\* address and close signal stay for the goroutine. A gate nothing refers to is unreachable
\* and its slot is handed out again by NewGate.
Referenced(g, gm, o, pr) ==
    \/ \E a \in Addrs : gm[a] = g
    \/ o.g = g
    \/ \E a \in Addrs : pr.gates[a] = g

Served(g, tk) == \E t \in BagToSet(tk) : t.gate = g

Collect(gs, gm, tk, o, pr) ==
    [g \in Gids |->
       IF Referenced(g, gm, o, pr) THEN gs[g]
       ELSE IF Served(g, tk)
       THEN [gs[g] EXCEPT !.proxies = BlankGate.proxies, !.outputs = BlankGate.outputs]
       ELSE BlankGate]

FreeGids == {g \in Gids : gate[g].listenTo = NoAddr}
FreshGid == CHOOSE g \in FreeGids : \A k \in FreeGids : g <= k

\* NewGateway() plus the proxies NewProxy built from their initial configs.
Init ==
    /\ gates = [a \in Addrs |-> NoGate]
    /\ gate = [g \in Gids |-> BlankGate]
    /\ proxy = [p \in Proxies |->
                  [listenTo |-> IF p = "p1" THEN "a1" ELSE "a2", domainName |-> "h1",
                   proxyTo |-> "t1"]]
    /\ running = FALSE
    /\ wg = 0
    /\ tasks = EmptyBag
    /\ op = Idle
    /\ pre = NoPre
    /\ las = [pc |-> "idle", res |-> "none"]
    /\ loggerOutputs = {}

\* ------------------------------------------------- the API caller: returns
Ret(o, r) == [o EXCEPT !.pc = "ret", !.res = r]

\* A call entered from the caller (top) with its arguments.
Enter(top) == [Idle EXCEPT !.top = top]

\* Return from Gateway.AddProxy: to the caller, or into UpdateProxy (232-236).
AddProxyReturn(o, r) ==
    IF o.top = "UpdateProxy" /\ r = "nil"
    THEN [o EXCEPT !.pc = "UpdateProxy_RemoveOld"]
    ELSE Ret(o, r)

\* Mutant of AddGateReturn: AddProxy returns right after AddGate and never
\* puts the proxy into the new gate.
AddGateReturn_Early(o, r) ==
    IF o.top = "AddGate" THEN Ret(o, r) ELSE AddProxyReturn(o, r)

\* Return from Gateway.AddGate: to the caller, or into AddProxy (136-140).
AddGateReturn(o, r) ==
    IF o.top = "AddGate" THEN Ret(o, r)
    ELSE IF r = "nil" THEN [o EXCEPT !.pc = "AddProxy_GateAdd"]
    ELSE AddProxyReturn(o, r)

\* ------------------------------------------------------- Gateway.AddGate
\* Mutant of Register: the duplicate check is missing and the entry is
\* overwritten.
Register_Overwrite(o, g, a, gs) ==
    /\ gate' = [gs EXCEPT ![g].outputs = @ \cup loggerOutputs]
    /\ gates' = [gates EXCEPT ![a] = g]
    /\ op' = [o EXCEPT !.pc = "AddGate_running"]

\* gateway.go:61-67 for gate g listening on a, called with locals o, gs being
\* the gate objects at the call: duplicate check, then
\* gate.AddLoggerOutput(io.MultiWriter(gateway.loggerOutputs...)) and
\* gateway.gates[gate.listenTo] = gate.
Register(o, g, a, gs) ==
    IF gates[a] # NoGate
    THEN /\ op' = AddGateReturn(o, "ErrGateSignatureAlreadyRegistered")
         /\ gate' = gs
         /\ UNCHANGED gates
    ELSE /\ gate' = [gs EXCEPT ![g].outputs = @ \cup loggerOutputs]
         /\ gates' = [gates EXCEPT ![a] = g]
         /\ op' = [o EXCEPT !.pc = "AddGate_running"]

\* AddGate(gate) called with a gate the caller built with NewGate.
AddGate_Call ==
    /\ op.pc = "idle"
    /\ FreeGids # {}
    /\ \E a \in Addrs :
         Register([Enter("AddGate") EXCEPT !.g = FreshGid, !.addr = a], FreshGid, a,
                  [gate EXCEPT ![FreshGid] = NewGate(a)])
    /\ pre' = Snapshot
    /\ UNCHANGED <<proxy, running, wg, tasks, las, loggerOutputs>>

\* AddGate(gate) called by AddProxy (gateway.go:136).
AddGate_Register ==
    /\ op.pc = "AddGate"
    /\ Register(op, op.g, gate[op.g].listenTo, gate)
    /\ UNCHANGED <<proxy, running, wg, tasks, pre, las, loggerOutputs>>

\* gateway.go:73-75: if !gateway.running { return nil }.
AddGate_CheckRunning ==
    /\ op.pc = "AddGate_running"
    /\ op' = IF running THEN [op EXCEPT !.pc = "AddGate_spawn"] ELSE AddGateReturn(op, "nil")
    /\ UNCHANGED <<gates, gate, proxy, running, wg, tasks, pre, las, loggerOutputs>>

\* gateway.go:77-87: wg.Add(1); go func() { gate.ListenAndServe() ... }().
AddGate_Spawn ==
    /\ op.pc = "AddGate_spawn"
    /\ NumTasks < MaxTasks
    /\ wg' = wg + 1
    /\ tasks' = tasks (+) SetToBag({Task(op.g)})
    /\ op' = AddGateReturn(op, "nil")
    /\ UNCHANGED <<gates, gate, proxy, running, pre, las, loggerOutputs>>

\* ------------------------------------------------------ Gateway.RemoveGate
\* gateway.go:92-100: lookup; gate.Close(); delete(gateway.gates, addr).
RemoveGate ==
    /\ op.pc = "idle"
    /\ \E a \in Addrs :
         /\ IF gates[a] = NoGate
            THEN UNCHANGED <<gates, gate>>
            ELSE /\ gate' = GateClose(gate, gates[a])
                 /\ gates' = [gates EXCEPT ![a] = NoGate]
         /\ op' = Ret([Enter("RemoveGate") EXCEPT !.addr = a], "nil")
    /\ pre' = Snapshot
    /\ UNCHANGED <<proxy, running, wg, tasks, las, loggerOutputs>>

\* ------------------------------------------------------- Gateway.AddProxy
\* Mutant of Lookup: the registry is not consulted and a gate is always built.
Lookup_AlwaysBuild(o) ==
    /\ FreeGids # {}
    /\ gate' = [gate EXCEPT ![FreshGid] = NewGate(proxy[o.p].listenTo)]
    /\ op' = [o EXCEPT !.pc = "AddGate", !.g = FreshGid]

\* gateway.go:126-134 for proxy o.p: a gate exists for its address ->
\* gate.AddProxy(proxy); else NewGate. NewGate rejects invalid addresses only
\* and every address of Addrs is a valid one, so the gate is built.
Lookup(o) ==
    LET a == proxy[o.p].listenTo
        h == proxy[o.p].domainName
        g == gates[a]
    IN  IF g # NoGate
        THEN IF GateHasHost(gate, g, h)
             THEN /\ op' = AddProxyReturn(o, "ErrProxySignatureAlreadyRegistered")
                  /\ UNCHANGED gate
             ELSE /\ gate' = GateAddProxy(gate, g, h, o.p)
                  /\ op' = AddProxyReturn(o, "nil")
        ELSE /\ FreeGids # {}
             /\ gate' = [gate EXCEPT ![FreshGid] = NewGate(a)]
             /\ op' = [o EXCEPT !.pc = "AddGate", !.g = FreshGid]

\* AddProxy(proxy) called by the caller.
AddProxy_Call ==
    /\ op.pc = "idle"
    /\ \E p \in Proxies : Lookup([Enter("AddProxy") EXCEPT !.p = p])
    /\ pre' = Snapshot
    /\ UNCHANGED <<gates, proxy, running, wg, tasks, las, loggerOutputs>>

\* AddProxy(proxy) called by UpdateProxy (gateway.go:232).
AddProxy_Lookup ==
    /\ op.pc = "AddProxy"
    /\ Lookup(op)
    /\ UNCHANGED <<gates, proxy, running, wg, tasks, pre, las, loggerOutputs>>

\* Mutant of AddProxy_GateAdd: the new gate is registered but the proxy is
\* never put into it.
AddProxy_GateAdd_Forget ==
    /\ op.pc = "AddProxy_GateAdd"
    /\ op' = AddProxyReturn(op, "nil")
    /\ UNCHANGED <<gates, gate, proxy, running, wg, tasks, pre, las, loggerOutputs>>

\* gateway.go:140-144: gate.AddProxy(proxy) on the gate just registered.
AddProxy_GateAdd ==
    /\ op.pc = "AddProxy_GateAdd"
    /\ LET h == proxy[op.p].domainName
       IN  IF GateHasHost(gate, op.g, h)
           THEN /\ op' = AddProxyReturn(op, "ErrProxySignatureAlreadyRegistered")
                /\ UNCHANGED gate
           ELSE /\ gate' = GateAddProxy(gate, op.g, h, op.p)
                /\ op' = AddProxyReturn(op, "nil")
    /\ UNCHANGED <<gates, proxy, running, wg, tasks, pre, las, loggerOutputs>>

\* ---------------------------------------------------- Gateway.RemoveProxy
\* Mutant of GatewayRemoveProxy: the old binding is never detached.
GatewayRemoveProxy_Skip(addr, domainName, closeEmpty) == gate

\* Mutant of GatewayRemoveProxy: when the address has no gate the hostname is
\* searched for, and detached, in every gate.
GatewayRemoveProxy_AnyGate(addr, domainName, closeEmpty) ==
    IF gates[addr] = NoGate
    THEN [g \in Gids |-> [gate[g] EXCEPT !.proxies[domainName] = NoProxy]]
    ELSE GateRemoveProxy(gate, gates[addr], domainName, closeEmpty)

\* gateway.go:149-156 as a function of the gate objects.
GatewayRemoveProxy(addr, domainName, closeEmpty) ==
    IF gates[addr] = NoGate THEN gate
    ELSE GateRemoveProxy(gate, gates[addr], domainName, closeEmpty)

RemoveProxy ==
    /\ op.pc = "idle"
    /\ \E a \in Addrs, h \in Hosts, c \in BOOLEAN :
         /\ gate' = GatewayRemoveProxy(a, h, c)
         /\ op' = Ret([Enter("RemoveProxy") EXCEPT !.addr = a, !.oldDomainName = h], "nil")
    /\ pre' = Snapshot
    /\ UNCHANGED <<gates, proxy, running, wg, tasks, las, loggerOutputs>>

\* ---------------------------------------------------- Gateway.UpdateProxy
\* Gate.UpdateProxy: validates, applies Proxy.updateConfig, and keeps the route
\* keyed by its hostname inside this gate; rejected configs change nothing.
GateUpdateProxyResult(g, p, cfg) ==
    IF ~cfg.valid THEN "ErrInvalidConfig"
    ELSE IF cfg.DomainName # proxy[p].domainName /\ GateHasHost(gate, g, cfg.DomainName)
    THEN "ErrProxySignatureAlreadyRegistered"
    ELSE "nil"

GateUpdateProxyGates(g, p, cfg) ==
    IF gate[g].proxies[proxy[p].domainName] = p
    THEN GateAddProxy(GateRemoveProxy(gate, g, proxy[p].domainName, FALSE), g, cfg.DomainName, p)
    ELSE gate

\* The routes whose configuration file changes while the program runs.
Watched == {"p1"}

\* Mutant of Reconciles: a failed reload is not noticed.
Reconciles_NoLoadCheck(ev) == ev.Op = "Write"

\* gateway.go:194-205: the handler goes on to UpdateProxy for a Write event
\* whose config loads, and returns for anything else.
Reconciles(ev) == ev.Op = "Write" /\ ev.loaded

\* UpdateProxy(proxy, cfg) as entered by the config-change callback (207).
Update(p, cfg, ev) == [Enter("UpdateProxy") EXCEPT !.p = p, !.cfg = cfg, !.ev = ev]

\* gateway.go:194-196, 201-205: the handler returns without calling UpdateProxy.
OnConfigChange_Skip ==
    /\ op.pc = "idle"
    /\ \E p \in Watched, ev \in Events :
         /\ ~Reconciles(ev)
         /\ op' = Ret([Enter("onConfigChange") EXCEPT !.p = p, !.ev = ev], "none")
    /\ pre' = Snapshot
    /\ UNCHANGED <<gates, gate, proxy, running, wg, tasks, las, loggerOutputs>>

\* Mutant of UpdateProxy_SameGate: the lookup's ok is not tested; without a
\* gate the config is applied to the route and nil is returned.
UpdateProxy_SameGate_NoCheck ==
    /\ op.pc = "idle"
    /\ \E p \in Watched, cfg \in ProxyConfig, ev \in Events :
         /\ Reconciles(ev)
         /\ cfg.ListenTo = proxy[p].listenTo
         /\ LET g == gates[proxy[p].listenTo]
                r == IF g = NoGate THEN "nil" ELSE GateUpdateProxyResult(g, p, cfg)
            IN  /\ op' = Ret(Update(p, cfg, ev), r)
                /\ IF r = "nil"
                   THEN /\ gate' = IF g = NoGate THEN gate ELSE GateUpdateProxyGates(g, p, cfg)
                        /\ proxy' = UpdateConfig(proxy, p, cfg)
                   ELSE UNCHANGED <<gate, proxy>>
    /\ pre' = Snapshot
    /\ UNCHANGED <<gates, running, wg, tasks, las, loggerOutputs>>

\* gateway.go:214-221: the address stays; delegate to the gate.
UpdateProxy_SameGate ==
    /\ op.pc = "idle"
    /\ \E p \in Watched, cfg \in ProxyConfig, ev \in Events :
         /\ Reconciles(ev)
         /\ cfg.ListenTo = proxy[p].listenTo
         /\ LET g == gates[proxy[p].listenTo]
            IN  IF g = NoGate
                THEN /\ op' = Ret(Update(p, cfg, ev), "ErrGateDoesNotExist")
                     /\ UNCHANGED <<gate, proxy>>
                ELSE LET r == GateUpdateProxyResult(g, p, cfg)
                     IN  /\ op' = Ret(Update(p, cfg, ev), r)
                         /\ IF r = "nil"
                            THEN /\ gate' = GateUpdateProxyGates(g, p, cfg)
                                 /\ proxy' = UpdateConfig(proxy, p, cfg)
                            ELSE UNCHANGED <<gate, proxy>>
    /\ pre' = Snapshot
    /\ UNCHANGED <<gates, running, wg, tasks, las, loggerOutputs>>

\* gateway.go:223-230: no gate for the new address: remember the old binding,
\* proxy.updateConfig(cfg); gateway.AddProxy(proxy) comes next.
UpdateProxy_NewGate ==
    /\ op.pc = "idle"
    /\ \E p \in Watched, cfg \in ProxyConfig, ev \in Events :
         /\ Reconciles(ev)
         /\ cfg.ListenTo # proxy[p].listenTo
         /\ gates[cfg.ListenTo] = NoGate
         /\ IF cfg.valid
            THEN /\ proxy' = UpdateConfig(proxy, p, cfg)
                 /\ op' = [Update(p, cfg, ev) EXCEPT !.pc = "AddProxy",
                                                 !.oldAddr = proxy[p].listenTo,
                                                 !.oldDomainName = proxy[p].domainName]
            ELSE /\ op' = Ret(Update(p, cfg, ev), "ErrInvalidConfig")
                 /\ UNCHANGED proxy
    /\ pre' = Snapshot
    /\ UNCHANGED <<gates, gate, running, wg, tasks, las, loggerOutputs>>

\* gateway.go:236-237: gateway.RemoveProxy(oldAddr, oldDomainName); return nil.
UpdateProxy_RemoveOld ==
    /\ op.pc = "UpdateProxy_RemoveOld"
    /\ \E c \in BOOLEAN : gate' = GatewayRemoveProxy(op.oldAddr, op.oldDomainName, c)
    /\ op' = Ret(op, "nil")
    /\ UNCHANGED <<gates, proxy, running, wg, tasks, pre, las, loggerOutputs>>

\* gateway.go:223, 240-244: a gate for the new address exists: remember the old
\* hostname, proxy.updateConfig(cfg); gate.AddProxy(proxy) comes next.
UpdateProxy_ExistingGate ==
    /\ op.pc = "idle"
    /\ \E p \in Watched, cfg \in ProxyConfig, ev \in Events :
         /\ Reconciles(ev)
         /\ cfg.ListenTo # proxy[p].listenTo
         /\ gates[cfg.ListenTo] # NoGate
         /\ IF cfg.valid
            THEN /\ proxy' = UpdateConfig(proxy, p, cfg)
                 /\ op' = [Update(p, cfg, ev) EXCEPT !.pc = "UpdateProxy_GateAdd",
                                                 !.g = gates[cfg.ListenTo],
                                                 !.oldDomainName = proxy[p].domainName]
            ELSE /\ op' = Ret(Update(p, cfg, ev), "ErrInvalidConfig")
                 /\ UNCHANGED proxy
    /\ pre' = Snapshot
    /\ UNCHANGED <<gates, gate, running, wg, tasks, las, loggerOutputs>>

\* gateway.go:246-248: gate.AddProxy(proxy) on the target gate.
UpdateProxy_GateAdd ==
    /\ op.pc = "UpdateProxy_GateAdd"
    /\ LET h == proxy[op.p].domainName
       IN  IF GateHasHost(gate, op.g, h)
           THEN /\ op' = Ret(op, "ErrProxySignatureAlreadyRegistered")
                /\ UNCHANGED gate
           ELSE /\ gate' = GateAddProxy(gate, op.g, h, op.p)
                /\ op' = [op EXCEPT !.pc = "UpdateProxy_GateRemove"]
    /\ UNCHANGED <<gates, proxy, running, wg, tasks, pre, las, loggerOutputs>>

\* gateway.go:250-251: gate.RemoveProxy(oldDomainName), gate being the TARGET
\* gate looked up on line 223.
UpdateProxy_GateRemove ==
    /\ op.pc = "UpdateProxy_GateRemove"
    /\ \E c \in BOOLEAN : gate' = GateRemoveProxy(gate, op.g, op.oldDomainName, c)
    /\ op' = Ret(op, "nil")
    /\ UNCHANGED <<gates, proxy, running, wg, tasks, pre, las, loggerOutputs>>

\* -------------------------------------------------- Gateway.AddLoggerOutput
\* The sinks handed to AddLoggerOutput.
Sinks == {"w1", "w2"}

\* Gate.AddLoggerOutput(w) on every gate of the registry gm.
PushOutput(gs, gm, w) ==
    [g \in Gids |->
       IF \E a \in Addrs : gm[a] = g THEN [gs[g] EXCEPT !.outputs = @ \cup {w}] ELSE gs[g]]

\* Mutant of AddLoggerOutput: the sink is appended to loggerOutputs but not
\* handed to the gates already registered.
AddLoggerOutput_NoPush ==
    /\ op.pc = "idle"
    /\ \E w \in Sinks : loggerOutputs' = loggerOutputs \cup {w}
    /\ op' = Ret(Enter("AddLoggerOutput"), "none")
    /\ pre' = Snapshot
    /\ UNCHANGED <<gates, gate, proxy, running, wg, tasks, las>>

\* gateway.go:37-44: append w; gate.AddLoggerOutput(w) for every registered
\* gate. loggerOutputs is kept as the set of its elements.
AddLoggerOutput ==
    /\ op.pc = "idle"
    /\ \E w \in Sinks :
         /\ loggerOutputs' = loggerOutputs \cup {w}
         /\ gate' = PushOutput(gate, gates, w)
    /\ op' = Ret(Enter("AddLoggerOutput"), "none")
    /\ pre' = Snapshot
    /\ UNCHANGED <<gates, proxy, running, wg, tasks, las>>

\* ----------------------------------------------------------- Gateway.Close
\* gateway.go:186-190: gate.Close() for every registered gate.
Close ==
    /\ op.pc = "idle"
    /\ gate' = [g \in Gids |->
                  IF \E a \in Addrs : gates[a] = g THEN [gate[g] EXCEPT !.closed = TRUE]
                  ELSE gate[g]]
    /\ op' = Ret(Enter("Close"), "nil")
    /\ pre' = Snapshot
    /\ UNCHANGED <<gates, proxy, running, wg, tasks, las, loggerOutputs>>

\* The call has returned to its caller.
OpReturn ==
    /\ op.pc = "ret"
    /\ op' = Idle
    /\ pre' = NoPre
    /\ gate' = Collect(gate, gates, tasks, Idle, NoPre)
    /\ UNCHANGED <<gates, proxy, running, wg, tasks, las, loggerOutputs>>

\* -------------------------------------------------- Gateway.ListenAndServe
\* Mutant of LAS_Start: running is set before the registry is found empty.
LAS_Start_SetFirst ==
    /\ las.pc = "idle"
    /\ running' = TRUE
    /\ las' = IF \A a \in Addrs : gates[a] = NoGate
              THEN [pc |-> "idle", res |-> "ErrNoGateInGateway"]
              ELSE [pc |-> "spawn", res |-> "none"]
    /\ UNCHANGED <<gates, gate, proxy, wg, tasks, op, pre, loggerOutputs>>

\* gateway.go:162-166: no gates -> ErrNoGateInGateway; else running = true.
LAS_Start ==
    /\ las.pc = "idle"
    /\ IF \A a \in Addrs : gates[a] = NoGate
       THEN /\ las' = [pc |-> "idle", res |-> "ErrNoGateInGateway"]
            /\ UNCHANGED running
       ELSE /\ las' = [pc |-> "spawn", res |-> "none"]
            /\ running' = TRUE
    /\ UNCHANGED <<gates, gate, proxy, wg, tasks, op, pre, loggerOutputs>>

\* gateway.go:168-178: one wg.Add(1) and one serving goroutine per entry of
\* gateway.gates. loopGate is a copy of the Gate value: it shares the gate's
\* route map and close signal, so the goroutine is a task of that gate.
RegisteredGates == {gates[a] : a \in {b \in Addrs : gates[b] # NoGate}}

LAS_Spawn ==
    /\ las.pc = "spawn"
    /\ NumTasks + Cardinality(RegisteredGates) <= MaxTasks
    /\ wg' = wg + Cardinality(RegisteredGates)
    /\ tasks' = tasks (+) SetToBag({Task(g) : g \in RegisteredGates})
    /\ las' = [las EXCEPT !.pc = "wait"]
    /\ UNCHANGED <<gates, gate, proxy, running, op, pre, loggerOutputs>>

\* gateway.go:180: gateway.wg.Wait() returns once the counter is zero.
LAS_Wait ==
    /\ las.pc = "wait"
    /\ wg = 0
    /\ las' = [las EXCEPT !.pc = "stop"]
    /\ UNCHANGED <<gates, gate, proxy, running, wg, tasks, op, pre, loggerOutputs>>

\* gateway.go:181-182: running = false; return nil.
LAS_Return ==
    /\ las.pc = "stop"
    /\ running' = FALSE
    /\ las' = [pc |-> "idle", res |-> "nil"]
    /\ UNCHANGED <<gates, gate, proxy, wg, tasks, op, pre, loggerOutputs>>

\* ------------------------------------------------------ serving goroutines
\* gate.ListenAndServe() returns because the gate was closed.
TaskClosed ==
    \E t \in BagToSet(tasks) :
      /\ t.pc = "serve"
      /\ gate[t.gate].closed
      /\ tasks' = (tasks (-) SetToBag({t})) (+) SetToBag({[t EXCEPT !.pc = "cleanup"]})
      /\ UNCHANGED <<gates, gate, proxy, running, wg, op, pre, las, loggerOutputs>>

\* gate.ListenAndServe() returns a listener error (gateway.go:79-81, 172-174).
TaskError ==
    \E t \in BagToSet(tasks) :
      /\ t.pc = "serve"
      /\ tasks' = (tasks (-) SetToBag({t})) (+) SetToBag({[t EXCEPT !.pc = "cleanup"]})
      /\ UNCHANGED <<gates, gate, proxy, running, wg, op, pre, las, loggerOutputs>>

\* What delete(gateway.gates, gate.listenTo) leaves of the map (gateway.go:83, 175).
DeleteGate(g) == [gates EXCEPT ![gate[g].listenTo] = NoGate]

\* gateway.go:83-84, 175-176: delete(gateway.gates, gate.listenTo); wg.Done().
TaskCleanup ==
    \E t \in BagToSet(tasks) :
      /\ t.pc = "cleanup"
      /\ gates' = DeleteGate(t.gate)
      /\ wg' = wg - 1
      /\ tasks' = tasks (-) SetToBag({t})
      /\ gate' = Collect(gate, gates', tasks', op, pre)
      /\ UNCHANGED <<proxy, running, op, pre, las, loggerOutputs>>

\* ---------------------------------------------------------- specifications
\* The registry API that creates, removes and closes gates.
GateOps ==
    \/ AddGate_Call \/ AddGate_Register \/ AddGate_CheckRunning \/ AddGate_Spawn
    \/ RemoveGate
    \/ AddProxy_Call \/ AddProxy_GateAdd
    \/ Close
    \/ OpReturn

\* The registry API that binds and moves routes.
RouteOps ==
    \/ AddProxy_Lookup \/ RemoveProxy
    \/ OnConfigChange_Skip
    \/ UpdateProxy_SameGate \/ UpdateProxy_NewGate \/ UpdateProxy_RemoveOld
    \/ UpdateProxy_ExistingGate \/ UpdateProxy_GateAdd \/ UpdateProxy_GateRemove

\* The registry API that registers log sinks.
LogOps == AddLoggerOutput

LasNext == LAS_Start \/ LAS_Spawn \/ LAS_Wait \/ LAS_Return

TaskNext == TaskClosed \/ TaskError \/ TaskCleanup

\* The program as written: no lock orders the three kinds of goroutine.
Next == GateOps \/ RouteOps \/ LogOps \/ LasNext \/ TaskNext

Spec == Init /\ [][Next]_vars

\* The same goroutines with the gate-level API only: every behaviour of
\* ConcSpec is a behaviour of Spec.
ConcNext == GateOps \/ LasNext \/ TaskNext

ConcSpec == Init /\ [][ConcNext]_vars

\* One handler at a time: a call, a segment of ListenAndServe up to its next
\* blocking point and a goroutine's exit each run without interleaving, as they
\* do in a test that drives the registry from one goroutine.
LasBlocked == las.pc \in {"idle", "wait"}
CallerIdle == op.pc = "idle"
Quiet == CallerIdle /\ LasBlocked

SeqNext ==
    \/ (LasBlocked /\ AddGate_Call)
    \/ (LasBlocked /\ AddGate_Register)
    \/ (LasBlocked /\ AddGate_CheckRunning)
    \/ (LasBlocked /\ AddGate_Spawn)
    \/ (LasBlocked /\ RemoveGate)
    \/ (LasBlocked /\ AddProxy_Call)
    \/ (LasBlocked /\ AddProxy_GateAdd)
    \/ (LasBlocked /\ Close)
    \/ (LasBlocked /\ OpReturn)
    \/ (LasBlocked /\ AddProxy_Lookup)
    \/ (LasBlocked /\ RemoveProxy)
    \/ (LasBlocked /\ UpdateProxy_SameGate)
    \/ (LasBlocked /\ UpdateProxy_NewGate)
    \/ (LasBlocked /\ UpdateProxy_RemoveOld)
    \/ (LasBlocked /\ UpdateProxy_ExistingGate)
    \/ (LasBlocked /\ UpdateProxy_GateAdd)
    \/ (LasBlocked /\ UpdateProxy_GateRemove)
    \/ (CallerIdle /\ LAS_Start)
    \/ (CallerIdle /\ LAS_Spawn)
    \/ (CallerIdle /\ LAS_Wait)
    \/ (CallerIdle /\ LAS_Return)
    \/ (Quiet /\ TaskClosed)
    \/ (Quiet /\ TaskError)
    \/ (Quiet /\ TaskCleanup)

SeqSpec == Init /\ [][SeqNext]_vars

\* The handlers of config-change events and the route-level API, one handler
\* at a time, while ListenAndServe has not been started: startGateway starts
\* the watchers (AddProxyByViper, gateway.go:120-121) before it starts
\* ListenAndServe, and the handler's decision reads nothing of the serving
\* side.
WatchNext ==
    \/ OnConfigChange_Skip
    \/ UpdateProxy_SameGate
    \/ UpdateProxy_NewGate
    \/ UpdateProxy_RemoveOld
    \/ UpdateProxy_ExistingGate
    \/ UpdateProxy_GateAdd
    \/ UpdateProxy_GateRemove
    \/ AddProxy_Call
    \/ AddProxy_Lookup
    \/ AddProxy_GateAdd
    \/ AddGate_Register
    \/ AddGate_CheckRunning
    \/ RemoveProxy
    \/ RemoveGate
    \/ OpReturn

WatchSpec == Init /\ [][WatchNext]_vars

\* One handler at a time, with the gate-level API and the registration of log
\* sinks: the calls that decide which gate receives which sink.
LogNext ==
    \/ (LasBlocked /\ AddLoggerOutput)
    \/ (LasBlocked /\ AddGate_Call)
    \/ (LasBlocked /\ AddGate_Register)
    \/ (LasBlocked /\ AddGate_CheckRunning)
    \/ (LasBlocked /\ AddGate_Spawn)
    \/ (LasBlocked /\ RemoveGate)
    \/ (LasBlocked /\ AddProxy_Call)
    \/ (LasBlocked /\ AddProxy_GateAdd)
    \/ (LasBlocked /\ Close)
    \/ (LasBlocked /\ OpReturn)
    \/ (CallerIdle /\ LAS_Start)
    \/ (CallerIdle /\ LAS_Spawn)
    \/ (CallerIdle /\ LAS_Wait)
    \/ (CallerIdle /\ LAS_Return)
    \/ (Quiet /\ TaskClosed)
    \/ (Quiet /\ TaskError)
    \/ (Quiet /\ TaskCleanup)

LogSpec == Init /\ [][LogNext]_vars

\* The Go scheduler runs every runnable goroutine: a serving goroutine whose
\* gate is closed returns and cleans up, and ListenAndServe takes its next
\* step, and a call in progress runs to its return. Listener errors and new
\* API calls are up to the environment.
FairConcSpec ==
    /\ ConcSpec
    /\ WF_vars(TaskClosed) /\ WF_vars(TaskCleanup) /\ WF_vars(LasNext)
    /\ WF_vars(op.pc # "idle" /\ GateOps)

\* ------------------------------------------------------------------ claims
\* The call in progress is UpdateProxy(op.p, op.cfg); it was entered with the
\* route at (OldAddr, OldHost) and asks for (NewAddr, NewHost).
InUpdate == op.pc # "idle" /\ op.top = "UpdateProxy"
Returned(top) == op.pc = "ret" /\ op.top = top
OldAddr == pre.proxy[op.p].listenTo
OldHost == pre.proxy[op.p].domainName
NewAddr == op.cfg.ListenTo
NewHost == op.cfg.DomainName

\* The route was stored in the registered gate of its address, under its
\* hostname, when the call was entered.
BoundBefore ==
    /\ pre.gates[OldAddr] # NoGate
    /\ pre.gate[pre.gates[OldAddr]].proxies[OldHost] = op.p

\* The old gate (the object registered for OldAddr at entry) still holds the
\* route under OldHost; the gate registered for NewAddr holds it under NewHost.
OldBinding == gate[pre.gates[OldAddr]].proxies[OldHost] = op.p
NewBinding == gates[NewAddr] # NoGate /\ gate[gates[NewAddr]].proxies[NewHost] = op.p

\* UpdateProxy returned nil after moving a bound route to an address that had
\* no gate.
MovedToNewGate ==
    /\ Returned("UpdateProxy") /\ op.res = "nil"
    /\ NewAddr # OldAddr
    /\ pre.gates[NewAddr] = NoGate
    /\ BoundBefore

\* C1: after UpdateProxy moves a route bound at (A, H) to (B, H2), B having no
\* gate, and returns nil: a gate for B is registered and holds the route under
\* H2, the route carries the new config, and the gate for A holds nothing
\* under H.
C1_MoveToNewGate ==
    MovedToNewGate =>
        /\ NewBinding
        /\ proxy[op.p] = [listenTo |-> NewAddr, domainName |-> NewHost,
                          proxyTo |-> op.cfg.ProxyTo]
        /\ gate[pre.gates[OldAddr]].proxies[OldHost] = NoProxy
        /\ gates[OldAddr] # NoGate => gate[gates[OldAddr]].proxies[OldHost] = NoProxy

C1_Witness == MovedToNewGate /\ NewHost # OldHost /\ running

\* UpdateProxy returned nil after moving a bound route to an address whose
\* gate was registered and had no route under the new hostname.
MovedToExistingGate ==
    /\ Returned("UpdateProxy") /\ op.res = "nil"
    /\ NewAddr # OldAddr
    /\ pre.gates[NewAddr] # NoGate
    /\ pre.gate[pre.gates[NewAddr]].proxies[NewHost] = NoProxy
    /\ BoundBefore

\* C2: after UpdateProxy moves a route bound at (A, H) to (B, H2), B having a
\* registered gate with no route under H2, and returns nil: the gate for B
\* holds the route under H2 and the gate for A holds nothing under H.
C2_MoveToExistingGate ==
    MovedToExistingGate =>
        /\ NewBinding
        /\ gate[pre.gates[OldAddr]].proxies[OldHost] = NoProxy

\* C3: at every point of an UpdateProxy call that changes the address of a
\* bound route, and when it has returned, the route is stored in its old gate
\* under its old hostname or in the new gate under its new hostname.
C3_NeverUnbound ==
    (InUpdate /\ NewAddr # OldAddr /\ BoundBefore) => (OldBinding \/ NewBinding)

\* The old binding has been removed, by a call that created the gate.
C3_Witness ==
    /\ MovedToNewGate
    /\ ~OldBinding
    /\ NewBinding

\* Serving goroutines (serving or cleaning up) started for gate g.
TasksOf(g) == CopiesIn([gate |-> g, pc |-> "serve"], tasks)
              + CopiesIn([gate |-> g, pc |-> "cleanup"], tasks)

\* C4: no gate ever has two serving goroutines, whatever the interleaving of
\* AddGate with ListenAndServe.
C4_NoDuplicateListeners == \A g \in Gids : TasksOf(g) <= 1

\* Positions at which the next statement of the API caller reads or writes
\* gateway.gates (gateway.go:61-67, 126, 150).
GatesAccessPcs == {"AddGate", "AddProxy", "UpdateProxy_RemoveOld"}

\* A serving goroutine stands at its delete(gateway.gates, ...).
Deleting == \E t \in BagToSet(tasks) : t.pc = "cleanup"

\* C5: the delete of a terminating serving goroutine never coincides with an
\* access to gateway.gates by the API caller or by ListenAndServe's spawn loop:
\* no state has both goroutines standing at their access with nothing to order
\* them.
C5_GatesMapExclusive ==
    Deleting => (op.pc \notin GatesAccessPcs /\ las.pc # "spawn")

\* C6: when AddProxy, RemoveProxy or UpdateProxy has returned, every route
\* stored in a registered gate reports that gate's address and is stored
\* under its own hostname.
C6_RoutesMatchGate ==
    (op.pc = "ret" /\ op.top \in {"AddProxy", "RemoveProxy", "UpdateProxy"}) =>
        \A a \in Addrs, h \in Hosts :
            (gates[a] # NoGate /\ gate[gates[a]].proxies[h] # NoProxy) =>
                /\ proxy[gate[gates[a]].proxies[h]].listenTo = a
                /\ proxy[gate[gates[a]].proxies[h]].domainName = h

\* C7: when UpdateProxy returns a duplicate-hostname, gate-construction or
\* gate-registration error, the routes, the registry and every gate are as
\* they were when the call was entered.
C7_UpdateAllOrNothing ==
    (Returned("UpdateProxy")
       /\ op.res \in {"ErrProxySignatureAlreadyRegistered",
                      "ErrGateSignatureAlreadyRegistered"}) =>
        /\ proxy = pre.proxy
        /\ gates = pre.gates
        /\ gate = pre.gate

\* C8: whenever ListenAndServe has returned nil, no serving goroutine is live
\* and running is false.
C8_ReturnedMeansNoTasks ==
    (las.pc = "idle" /\ las.res = "nil") => (tasks = EmptyBag /\ ~running)

\* C9: if Close has returned while ListenAndServe waits, then either a gate is
\* added afterwards or ListenAndServe eventually returns nil with every
\* serving goroutine gone, every gate deregistered and running false.
C9_CloseDrains ==
    (Returned("Close") /\ las.pc = "wait")
      ~> \/ op.pc = "AddGate_running"
         \/ /\ las.pc = "idle" /\ las.res = "nil" /\ ~running
            /\ tasks = EmptyBag
            /\ \A a \in Addrs : gates[a] = NoGate

\* C10: the cleanup of a serving goroutine (the step that decrements wg) takes
\* no gate out of the registry but the gate that goroutine served.
C10_CleanupRemovesOwnGate ==
    [][\A a \in Addrs :
         (wg' = wg - 1 /\ gates[a] # NoGate /\ gates'[a] = NoGate) =>
            \E t \in BagToSet(tasks) :
               /\ t.pc = "cleanup"
               /\ CopiesIn(t, tasks') < CopiesIn(t, tasks)
               /\ t.gate = gates[a]]_vars

\* AddGate(gate) has returned and the gate's address had an entry at the call.
AddGateDuplicate == Returned("AddGate") /\ pre.gates[op.addr] # NoGate

\* C11: AddGate of a gate whose address already has an entry returns
\* ErrGateSignatureAlreadyRegistered, leaves every entry of the registry and
\* the gate stored under it as they were, and starts no serving goroutine.
C11_AddGateDuplicate ==
    AddGateDuplicate =>
        /\ op.res = "ErrGateSignatureAlreadyRegistered"
        /\ gates = pre.gates
        /\ \A a \in Addrs : gates[a] # NoGate => gate[gates[a]] = pre.gate[gates[a]]
        /\ tasks = pre.tasks
        /\ running = pre.running

C11_Witness == AddGateDuplicate /\ running /\ op.g # pre.gates[op.addr]

\* Number of entries of a registry map.
NumGates(gm) == Cardinality({a \in Addrs : gm[a] # NoGate})

\* The address and hostname of the route of the call in progress.
RouteAddr == proxy[op.p].listenTo
RouteHost == proxy[op.p].domainName

\* AddProxy has returned nil for a route whose address had no gate at the call.
AddProxyNewGate ==
    /\ Returned("AddProxy") /\ op.res = "nil"
    /\ pre.gates[RouteAddr] = NoGate

\* C12: AddProxy of a route (A, H), A having no gate, that returns nil leaves a
\* gate for A registered that holds the route under H, one entry more in the
\* registry than before, and every other entry and its gate as they were.
C12_AddProxyNewGate ==
    AddProxyNewGate =>
        /\ gates[RouteAddr] # NoGate
        /\ gate[gates[RouteAddr]].listenTo = RouteAddr
        /\ gate[gates[RouteAddr]].proxies[RouteHost] = op.p
        /\ NumGates(gates) = NumGates(pre.gates) + 1
        /\ \A a \in Addrs \ {RouteAddr} :
             /\ gates[a] = pre.gates[a]
             /\ gates[a] # NoGate => gate[gates[a]] = pre.gate[gates[a]]

C12_Witness ==
    /\ AddProxyNewGate /\ running
    /\ \E a \in Addrs, h \in Hosts :
         pre.gates[a] # NoGate /\ pre.gate[pre.gates[a]].proxies[h] # NoProxy

\* Number of routes stored in a gate object.
NumRoutes(gt) == Cardinality({h \in Hosts : gt.proxies[h] # NoProxy})

\* AddProxy has returned for a route whose address had a gate at the call.
AddProxyExistingGate == Returned("AddProxy") /\ pre.gates[RouteAddr] # NoGate

\* C13: AddProxy of a route (A, H), A having a registered gate, is that gate's
\* AddProxy: the registry and the serving goroutines are unchanged; it returns
\* nil exactly if the gate had no route under H, and then the gate holds the
\* route under H and one route more than before; otherwise the gate is as it
\* was.
C13_AddProxyExistingGate ==
    AddProxyExistingGate =>
        LET g == pre.gates[RouteAddr]
        IN  /\ gates = pre.gates
            /\ tasks = pre.tasks
            /\ (op.res = "nil") <=> (pre.gate[g].proxies[RouteHost] = NoProxy)
            /\ op.res = "nil" =>
                 /\ gate[g].proxies[RouteHost] = op.p
                 /\ NumRoutes(gate[g]) = NumRoutes(pre.gate[g]) + 1
            /\ op.res # "nil" => gate[g] = pre.gate[g]

C13_Witness ==
    /\ AddProxyExistingGate /\ op.res = "nil"
    /\ NumRoutes(gate[gates[RouteAddr]]) = 2

\* RemoveGate(addr) has returned and addr had no gate at the call.
RemoveGateAbsent == Returned("RemoveGate") /\ pre.gates[op.addr] = NoGate

\* RemoveProxy(addr, domainName) has returned and, at the call, addr had no
\* gate or its gate had no route under domainName.
RemoveProxyAbsent ==
    /\ Returned("RemoveProxy")
    /\ \/ pre.gates[op.addr] = NoGate
       \/ pre.gate[pre.gates[op.addr]].proxies[op.oldDomainName] = NoProxy

\* C14: RemoveGate of an address without a gate, and RemoveProxy of an address
\* without a gate or of a hostname its gate does not hold, leave the registry,
\* every gate, the running flag and the serving goroutines as they were and
\* report no error.
C14_RemoveAbsentIsNoOp ==
    (RemoveGateAbsent \/ RemoveProxyAbsent) =>
        /\ gates = pre.gates
        /\ gate = pre.gate
        /\ running = pre.running
        /\ tasks = pre.tasks
        /\ op.res = "nil"

\* RemoveProxy of a hostname absent from a registered gate that holds another
\* route, while the gateway is running.
C14_Witness ==
    /\ RemoveProxyAbsent /\ running
    /\ pre.gates[op.addr] # NoGate
    /\ NumRoutes(pre.gate[pre.gates[op.addr]]) = 1

\* UpdateProxy has returned for a config that names the route's own address.
SameAddrUpdate == Returned("UpdateProxy") /\ NewAddr = OldAddr

\* C15: UpdateProxy with the route's current address: without a gate for that
\* address it returns ErrGateDoesNotExist and changes neither route nor gates;
\* with one it is that gate's UpdateProxy: no entry of the registry is added,
\* removed or replaced, no other gate changes, no serving goroutine starts,
\* and a route that was in the gate is still in it, under its own hostname.
C15_UpdateSameAddress ==
    SameAddrUpdate =>
        /\ gates = pre.gates
        /\ tasks = pre.tasks
        /\ pre.gates[OldAddr] = NoGate =>
             /\ op.res = "ErrGateDoesNotExist"
             /\ proxy = pre.proxy
             /\ gate = pre.gate
        /\ pre.gates[OldAddr] # NoGate =>
             /\ op.res # "ErrGateDoesNotExist"
             /\ \A g \in Gids \ {pre.gates[OldAddr]} : gate[g] = pre.gate[g]
             /\ BoundBefore => gate[gates[OldAddr]].proxies[RouteHost] = op.p
             /\ proxy[op.p].listenTo = OldAddr

\* A bound route was given another hostname in its own gate.
C15_Witness ==
    /\ SameAddrUpdate /\ op.res = "nil"
    /\ BoundBefore
    /\ NewHost # OldHost
    /\ gate[gates[OldAddr]].proxies[NewHost] = op.p

\* C16: a ListenAndServe that finds the registry empty returns
\* ErrNoGateInGateway in that same step: it does not go on to spawn or wait,
\* starts no serving goroutine, adds nothing to wg and leaves running false.
C16_NoGateInGateway ==
    [][(las.pc = "idle" /\ las' # las /\ \A a \in Addrs : gates[a] = NoGate) =>
          /\ las' = [pc |-> "idle", res |-> "ErrNoGateInGateway"]
          /\ ~running'
          /\ tasks' = tasks
          /\ wg' = wg
          /\ gates' = gates]_vars

\* ListenAndServe has returned ErrNoGateInGateway after an earlier run had
\* served gates, or on a registry never filled.
C16_Witness ==
    /\ las.pc = "idle" /\ las.res = "ErrNoGateInGateway"
    /\ \A a \in Addrs : gates[a] = NoGate
    /\ ~running /\ tasks = EmptyBag

\* The handler of a config-change event is running or has returned, and the
\* event was not a Write whose config loaded.
IgnoredEvent ==
    /\ op.pc # "idle" /\ op.ev # NoEvent
    /\ ~(op.ev.Op = "Write" /\ op.ev.loaded)

\* C17: the config-change handler calls UpdateProxy for no event but a Write
\* whose configuration loads: for every other event kind, and for a Write
\* whose reload fails, no UpdateProxy call is in progress or has returned, and
\* routes, registry and gates are as they were when the event arrived.
C17_OnlyWriteReconciles ==
    IgnoredEvent =>
        /\ op.top # "UpdateProxy"
        /\ proxy = pre.proxy
        /\ gates = pre.gates
        /\ gate = pre.gate

\* A Remove event arrived for the config file of a bound route, and the
\* handler has returned.
C17_Witness ==
    /\ IgnoredEvent /\ op.pc = "ret" /\ op.ev.Op = "Remove"
    /\ gates[RouteAddr] # NoGate /\ gate[gates[RouteAddr]].proxies[RouteHost] = op.p

\* C18: whenever no registry call is in the middle of its work, every sink
\* registered with the gateway is delivered to every registered gate: a sink
\* added by AddLoggerOutput reaches the gates registered then, and a gate
\* added by AddGate receives the sinks the gateway holds then.
C18_LoggerFanOut ==
    op.pc \in {"idle", "ret"} =>
        \A a \in Addrs : gates[a] # NoGate => loggerOutputs \subseteq gate[gates[a]].outputs

\* A second sink was registered while two gates were registered, each of
\* which had been given the first sink only.
C18_Witness ==
    /\ Returned("AddLoggerOutput")
    /\ loggerOutputs = Sinks
    /\ NumGates(gates) = 2
    /\ \A a \in Addrs :
         /\ Cardinality(pre.gate[gates[a]].outputs) = 1
         /\ gate[gates[a]].outputs = Sinks

\* The AddGate call that registers gate g has not returned yet.
AddingGate(g) == op.pc \in {"AddGate", "AddGate_running", "AddGate_spawn"} /\ op.g = g

\* C19: once ListenAndServe has set running and gone through its spawn loop,
\* every registered gate whose AddGate has returned is served by exactly one
\* goroutine, whether it was registered before running was set (started by
\* ListenAndServe only) or while running (started by AddGate only); and while
\* ListenAndServe is not running no registered gate has a serving goroutine.
C19_GatesStartedOnce ==
    \A a \in Addrs :
        (gates[a] # NoGate /\ ~AddingGate(gates[a])) =>
            /\ las.pc = "wait" => TasksOf(gates[a]) = 1
            /\ las.pc = "idle" => TasksOf(gates[a]) = 0

\* C20: when UpdateProxy(R, cfg) has returned, every gate stores every route
\* other than R under exactly the hostnames it stored it under at the call; in
\* particular a route of the target gate keyed by R's old hostname is still
\* there.
C20_UpdateFrame ==
    Returned("UpdateProxy") =>
        \A g \in Gids, h \in Hosts, q \in Proxies \ {op.p} :
            (pre.gate[g].proxies[h] = q) <=> (gate[g].proxies[h] = q)

====
